---- MODULE Spec2Model ----
(***************************************************************************)
(* ResourceAwareFedAvg (src/py/flwr/server/strategy/resource_aware_fedavg  *)
(* .py): the three-round bootstrap (discover, calibrate, steady state),    *)
(* the memory-based capacity estimate, the per-device timing model and     *)
(* the greedy assignment of clients to GPUs.                               *)
(*                                                                         *)
(* Numbers.  The strategy works on Python floats.  The model keeps them    *)
(* exact: a duration is a rational [num, den] (den > 0, lowest terms) and  *)
(* a Polynomial is a sequence of integer coefficients over one common      *)
(* denominator.  Rounding of floating point is not modelled.               *)
(***************************************************************************)
EXTENDS Integers, Sequences, FiniteSets, TLC

(***************************************************************************)
(* Bounds of the model.                                                    *)
(***************************************************************************)
\* rounds the server runs (rounds >= 3 are all steady-state rounds)
MaxRound == 3
\* a GPU has MaxMem MB; a task's peak reading ranges over 0..MaxMem and the
\* peak of all processes over 0..2*MaxMem
MaxMem == 1
\* training times reported by a monitor range over 1..MaxDuration seconds
MaxDuration == 2
\* longest unit list handed to associate_resources on its own
MaxUnits == 3
\* the readings of the capacity estimate on its own range over 0..MaxReading
\* and the readings of the example (200, 400, 1000)
MaxReading == 4
\* calls of request_available_resources made on its own
MaxDiscover == 3

(***************************************************************************)
(* Program constants.                                                      *)
(***************************************************************************)
\* resource_poly_degree: int = 1
resource_poly_degree == 1
\* num_local_steps = 20 (the round-1 probe)
num_local_steps == 20
\* min_fit_clients: int = 2
min_fit_clients == 2

\* the participants the client manager holds
Clients == 1..4

\* list(range(5, 31, 5))
WarmUpPool == {5 * i : i \in 1..6}

VARIABLES
    monitors,            \* the ALIVE RaySystemMonitor actors, in list_actors order
    warm_up_steps,       \* self.warm_up_steps
    gpu_resources,       \* self.gpu_resources: node_id -> (gpu_uuid -> SimpleGPU)
    cpu_resources,       \* self.cpu_resources: the node ids that have an entry
    resources_model,     \* self.resources_model, an insertion-ordered dict
    client_configs_map,  \* self.client_configs_map: cid -> <<node_id, gpu_uuid, num_steps>>
    client_resources,    \* client.resources of every ClientProxy
    collecting,          \* the monitors are collecting data
    server_round,        \* the round the server is running
    pc,                  \* what the server does next
    err,                 \* the exception that ended the last call, or "none"
    branch,              \* the branch the last configure_fit / aggregate_fit took
    client_fit_list,     \* the list the last configure_fit returned
    expected_time,       \* the makespan the last associate_resources printed
    metrics,             \* what the monitors reported to the last aggregate_fit
    units,               \* a caller's clients_with_weights list
    calls                \* what successive associate_resources calls on units returned

vars == <<monitors, warm_up_steps, gpu_resources, cpu_resources, resources_model,
          client_configs_map, client_resources, collecting, server_round, pc, err,
          branch, client_fit_list, expected_time, metrics, units, calls>>

(***************************************************************************)
(* Sequences and maps.                                                     *)
(***************************************************************************)
Range(s) == {s[i] : i \in DOMAIN s}

Injective(s) == \A i, j \in DOMAIN s : s[i] = s[j] => i = j

\* sequences over S of length at most n
SeqsUpTo(S, n) == UNION {[1..k -> S] : k \in 0..n}

\* d[k] = v on a dict held as a function
Put(d, k, v) == [x \in (DOMAIN d) \cup {k} |-> IF x = k THEN v ELSE d[x]]

RECURSIVE SumSeq(_)
SumSeq(s) == IF s = <<>> THEN 0 ELSE Head(s) + SumSeq(Tail(s))

\* the members of a set of integers in ascending order
RECURSIVE Ascending(_)
Ascending(S) ==
    IF S = {} THEN <<>>
    ELSE LET m == CHOOSE x \in S : \A y \in S : x <= y
         IN <<m>> \o Ascending(S \ {m})

(***************************************************************************)
(* Exact arithmetic for the floats of the strategy.                        *)
(***************************************************************************)
Abs(x) == IF x < 0 THEN -x ELSE x

RECURSIVE GCD(_, _)
GCD(a, b) == IF b = 0 THEN a ELSE GCD(b, a % b)

Rat(n, d) == LET g == GCD(Abs(n), d) IN [num |-> n \div g, den |-> d \div g]

RatZero == [num |-> 0, den |-> 1]

RatAdd(a, b) == Rat(a.num * b.den + b.num * a.den, a.den * b.den)

RatLess(a, b) == a.num * b.den < b.num * a.den

\* Python's int(a / b), b # 0: the quotient truncated toward zero
TruncDiv(a, b) ==
    IF (a >= 0) = (b > 0) THEN Abs(a) \div Abs(b) ELSE -(Abs(a) \div Abs(b))

(***************************************************************************)
(* numpy's Polynomial, of degree resource_poly_degree: coef[i] is the      *)
(* numerator of the coefficient of x^(i-1), den their common denominator.  *)
(***************************************************************************)
RECURSIVE Horner(_, _)
Horner(coef, x) ==
    IF coef = <<>> THEN 0 ELSE Head(coef) + x * Horner(Tail(coef), x)

\* model_poly(x)
PolyCall(m, x) == Rat(Horner(m.coef, x), m.den)

\* a Polynomial in lowest terms
PolyNorm(coef, den) ==
    LET RECURSIVE G(_)
        G(s) == IF s = <<>> THEN den ELSE GCD(G(Tail(s)), Abs(Head(s)))
        g == G(coef)
    IN [coef |-> [i \in DOMAIN coef |-> coef[i] \div g], den |-> den \div g]

\* Polynomial(coefficients) of create_model: 1 + 0 x + ...
InitialPoly ==
    [coef |-> [i \in 1..(resource_poly_degree + 1) |-> IF i = 1 THEN 1 ELSE 0],
     den |-> 1]

(***************************************************************************)
(* m.fit(x, y, deg=1): the least-squares line through the samples.  With   *)
(* no sample numpy raises ValueError (the domain of an empty x); with the  *)
(* sizes all equal the fit is rank deficient and numpy returns the         *)
(* minimum-norm solution, the constant mean of y, with a RankWarning.      *)
(***************************************************************************)
PolyFit(x, y) ==
    LET n   == Len(x)
        Sx  == SumSeq(x)
        Sy  == SumSeq(y)
        Sxx == SumSeq([i \in DOMAIN x |-> x[i] * x[i]])
        Sxy == SumSeq([i \in DOMAIN x |-> x[i] * y[i]])
        den == n * Sxx - Sx * Sx
    IN IF n = 0 THEN [ok |-> FALSE, poly |-> InitialPoly]
       ELSE IF den = 0 THEN [ok |-> TRUE, poly |-> PolyNorm(<<Sy, 0>>, n)]
       ELSE [ok |-> TRUE,
             poly |-> PolyNorm(<<Sy * Sxx - Sx * Sxy, n * Sxy - Sx * Sy>>, den)]

(***************************************************************************)
(* The cluster: every ALIVE monitor names a node; a node reports one CPU   *)
(* and its GPUs.                                                           *)
(***************************************************************************)
\* get_resources() of the monitor of a node with k GPUs, in dict order
NodeResources(node, k) ==
    <<[kind |-> "CPU", uuid |-> 0, gpu_id |-> 0, total_mem_mb |-> 0]>> \o
    [i \in 1..k |-> [kind |-> "GPU", uuid |-> 10 * node + i, gpu_id |-> i - 1,
                     total_mem_mb |-> MaxMem]]

Node(name, gpus) == [name |-> name, gpus |-> gpus]

\* the clusters considered: none, one node (without a GPU, with one, with
\* two), and two nodes in either order of list_actors
Topologies ==
    {<<>>, <<Node(1, 0)>>, <<Node(1, 1)>>, <<Node(1, 2)>>,
     <<Node(1, 1), Node(2, 0)>>, <<Node(1, 1), Node(2, 1)>>,
     <<Node(2, 1), Node(1, 1)>>}

(***************************************************************************)
(* self.resources_model: a dict in insertion order, held as a sequence of  *)
(* [key |-> <<node_id, gpu_uuid>>, poly, cap].                             *)
(***************************************************************************)
ModelKeys(rm) == [i \in DOMAIN rm |-> rm[i].key]

HasModel(rm, key) == \E i \in DOMAIN rm : rm[i].key = key

ModelIndex(rm, key) == CHOOSE i \in DOMAIN rm : rm[i].key = key

\* self.resources_model[key] = poly, cap
SetModel(rm, key, poly, cap) ==
    LET e == [key |-> key, poly |-> poly, cap |-> cap]
    IN IF HasModel(rm, key)
       THEN [rm EXCEPT ![ModelIndex(rm, key)] = e]
       ELSE Append(rm, e)

\* a variant that leaves coefficients[0] at 0
create_model_zero(rm, node_id, gpu_uuid) ==
    SetModel(rm, <<node_id, gpu_uuid>>,
             [coef |-> [i \in 1..(resource_poly_degree + 1) |-> 0], den |-> 1], 1)

\* create_model(node_id, gpu_uuid)
create_model(rm, node_id, gpu_uuid) ==
    SetModel(rm, <<node_id, gpu_uuid>>, InitialPoly, 1)

(***************************************************************************)
(* request_available_resources.  st holds gpu_resources, cpu_resources,    *)
(* resources_model and err; fail_at is the position of the actor whose     *)
(* remote query raises (0: none does).                                     *)
(***************************************************************************)
RECURSIVE ReadNodeResources(_, _, _)
ReadNodeResources(st, node_id, res) ==
    IF res = <<>> THEN st
    ELSE LET v == Head(res)
             nxt == IF v.kind = "GPU"
                    THEN [st EXCEPT
                            !.gpu_resources = Put(@, node_id,
                                Put(@[node_id], v.uuid,
                                    [gpu_id |-> v.gpu_id,
                                     total_mem_mb |-> v.total_mem_mb])),
                            !.resources_model = create_model(@, node_id, v.uuid)]
                    ELSE [st EXCEPT !.cpu_resources = @ \cup {node_id}]
         IN ReadNodeResources(nxt, node_id, Tail(res))

RECURSIVE RequestFrom(_, _, _, _)
RequestFrom(st, actors, i, fail_at) ==
    IF i > Len(actors) THEN st
    ELSE IF i = fail_at THEN [st EXCEPT !.err = "RayError"]
    ELSE LET node_id == actors[i].name
             cleared == [st EXCEPT !.gpu_resources = Put(@, node_id, <<>>)]
         IN RequestFrom(
                ReadNodeResources(cleared, node_id,
                                  NodeResources(node_id, actors[i].gpus)),
                actors, i + 1, fail_at)

request_available_resources(st, actors, fail_at) ==
    RequestFrom(st, actors, 1, fail_at)

(***************************************************************************)
(* associate_resources.                                                    *)
(***************************************************************************)
Min(a, b) == IF a <= b THEN a ELSE b

Max(a, b) == IF a >= b THEN a ELSE b

\* s[:n] and what del s[:n] leaves, n of either sign
Take(s, n) ==
    IF n >= 0 THEN SubSeq(s, 1, Min(n, Len(s)))
    ELSE SubSeq(s, 1, Max(0, Len(s) + n))

\* a variant that deletes one unit, whatever the size of the batch
DropOne(s, n) == SubSeq(s, 2, Len(s))

Drop(s, n) ==
    IF n >= 0 THEN SubSeq(s, Min(n, Len(s)) + 1, Len(s))
    ELSE SubSeq(s, Max(0, Len(s) + n) + 1, Len(s))

\* clients_with_weights.sort(key=lambda x: x[1], reverse=True): stable
RECURSIVE InsertDesc(_, _)
InsertDesc(sorted, e) ==
    IF sorted = <<>> THEN <<e>>
    ELSE IF Head(sorted)[2] >= e[2]
         THEN <<Head(sorted)>> \o InsertDesc(Tail(sorted), e)
         ELSE <<e>> \o sorted

RECURSIVE SortByWeightDesc(_)
SortByWeightDesc(s) ==
    IF s = <<>> THEN <<>>
    ELSE InsertDesc(SortByWeightDesc(SubSeq(s, 1, Len(s) - 1)), s[Len(s)])

\* expected_training_times.index(min(expected_training_times))
MinIndex(times) ==
    CHOOSE i \in DOMAIN times :
        /\ \A j \in DOMAIN times : ~RatLess(times[j], times[i])
        /\ \A j \in 1..(i - 1) : RatLess(times[i], times[j])

\* a variant that reports the load of the first device
FirstRat(times) == times[1]

\* max(expected_training_times)
MaxRat(times) ==
    times[CHOOSE i \in DOMAIN times : \A j \in DOMAIN times : ~RatLess(times[i], times[j])]

\* client.resources before any strategy call; 1 / n is never 0, so a
\* num_gpu of 0 stands for the key being absent
NoResources == [scheduling_strategy |-> 0, num_gpu |-> RatZero]

\* a variant that gives every client of a batch the whole device
ShareWhole(n) == Rat(1, 1)

\* 1 / actual_num_clients
Share(n) == IF n > 0 THEN Rat(1, n) ELSE Rat(-1, -n)

\* a variant that places the units left on no device instead of raising
NoDeviceUnpinned(st) ==
    LET cids == {st.cww[i][1] : i \in DOMAIN st.cww}
    IN [st EXCEPT
          !.cres = [c \in DOMAIN @ |->
                      IF c \in cids
                      THEN [scheduling_strategy |-> 0, num_gpu |-> Rat(1, 1)]
                      ELSE @[c]],
          !.cww = <<>>]

\* line 198 with no model: min() of an empty list raises
NoDevice(st) == [st EXCEPT !.err = "ValueError"]

\* one pass of the while loop (lines 197-233) over the state of the call:
\* cww (what is left of clients_with_weights), times (expected_training_
\* times), cfg (client_configs_map), cres (client.resources), fit_list,
\* batches (what each pass chose, for reference) and err
AssignPass(st, rm, gres) ==
    IF st.times = <<>> THEN NoDevice(st)
    ELSE
    LET idx == MinIndex(st.times)
        node_id == rm[idx].key[1]
        gpu_uuid == rm[idx].key[2]
        gpu_id == gres[node_id][gpu_uuid].gpu_id
        model_poly == rm[idx].poly
        max_num_clients == rm[idx].cap
        actual_num_clients == Min(max_num_clients, Len(st.cww))
        these_clients == Take(st.cww, actual_num_clients)
        cids == {these_clients[i][1] : i \in DOMAIN these_clients}
        steps == [c \in cids |->
                    LET i == CHOOSE k \in DOMAIN these_clients :
                                /\ these_clients[k][1] = c
                                /\ \A l \in DOMAIN these_clients :
                                      these_clients[l][1] = c => l <= k
                    IN these_clients[i][2]]
    IN IF these_clients = <<>> THEN [st EXCEPT !.err = "IndexError"]
       ELSE [st EXCEPT
               !.times[idx] = RatAdd(@, PolyCall(model_poly, these_clients[1][2])),
               !.cres = [c \in DOMAIN @ |->
                           IF c \in cids
                           THEN [scheduling_strategy |-> node_id,
                                 num_gpu |-> Share(actual_num_clients)]
                           ELSE @[c]],
               !.cfg = [c \in (DOMAIN @) \cup cids |->
                           IF c \in cids THEN <<node_id, gpu_uuid, steps[c]>>
                           ELSE @[c]],
               !.fit_list = @ \o [i \in DOMAIN these_clients |->
                                    [cid |-> these_clients[i][1], gpu_id |-> gpu_id,
                                     local_steps |-> 0]],
               !.batches = Append(@, [idx |-> idx, key |-> rm[idx].key,
                                      clients |-> these_clients,
                                      load |-> st.times,
                                      left |-> Len(Drop(st.cww, actual_num_clients)),
                                      time |-> PolyCall(model_poly, these_clients[1][2])]),
               !.cww = Drop(@, actual_num_clients)]

\* a variant with an if in place of the while: one pass at most
AssignOnce(st, rm, gres) ==
    IF st.err # "none" \/ st.cww = <<>> THEN st ELSE AssignPass(st, rm, gres)

\* while clients_with_weights: (line 196)
RECURSIVE AssignLoop(_, _, _)
AssignLoop(st, rm, gres) ==
    IF st.err # "none" \/ st.cww = <<>> THEN st
    ELSE AssignLoop(AssignPass(st, rm, gres), rm, gres)

\* the whole call; makespan is what line 235 prints
associate_resources(clients_with_weights, rm, gres, cfg, cres) ==
    LET st0 == [cww |-> SortByWeightDesc(clients_with_weights),
                times |-> [i \in DOMAIN rm |-> RatZero],
                cfg |-> cfg, cres |-> cres, fit_list |-> <<>>, batches |-> <<>>,
                err |-> "none", makespan |-> RatZero]
        st1 == AssignLoop(st0, rm, gres)
    IN IF st1.err # "none" THEN st1
       ELSE IF st1.times = <<>> THEN [st1 EXCEPT !.err = "ValueError"]
       ELSE [st1 EXCEPT !.makespan = MaxRat(st1.times)]

(***************************************************************************)
(* The collaborators.                                                      *)
(***************************************************************************)
\* client_manager.sample(num_clients=n, min_num_clients=n): n distinct
\* participants; with fewer than n available the call does not return
Sample(n) == {Ascending(S) : S \in {T \in SUBSET Clients : Cardinality(T) = n}}

\* self.profiles["train"][cid]
Profile(cid) == 10 * (((cid - 1) % 3) + 1)

\* a variant that draws with replacement
WarmUpDrawsReplaced == {<<5, 5>>, <<30, 15>>}

\* self.warm_up_steps: choice(list(range(5, 31, 5)), size=resource_poly_degree
\* + 1, replace=False); two of its draws are considered
WarmUpDraws ==
    {w \in {<<5, 10>>, <<30, 15>>} :
        /\ Len(w) = resource_poly_degree + 1
        /\ Range(w) \subseteq WarmUpPool
        /\ Injective(w)}

NoMetrics == [results |-> {}, mem |-> <<>>, times |-> <<>>]

(***************************************************************************)
(* configure_fit.                                                          *)
(***************************************************************************)
\* the probes of rounds 1 and 2 (lines 265-290, 300-325): for every key of
\* resources_model in order and every size in order, the next client popped
\* off the end of the sample
Probes(rm, gres, clients, sizes) ==
    [k \in 1..(Len(rm) * Len(sizes)) |->
        LET i == ((k - 1) \div Len(sizes)) + 1
            j == ((k - 1) % Len(sizes)) + 1
        IN [cid |-> clients[Len(clients) - k + 1],
            key |-> rm[i].key,
            gpu_id |-> gres[rm[i].key[1]][rm[i].key[2]].gpu_id,
            local_steps |-> sizes[j]]]

LastProbeOf(probes, c) ==
    probes[CHOOSE k \in DOMAIN probes :
              /\ probes[k].cid = c
              /\ \A l \in DOMAIN probes : probes[l].cid = c => l <= k]

\* what dispatching the probes writes, and the list configure_fit returns
DispatchProbes(probes) ==
    LET cids == {probes[k].cid : k \in DOMAIN probes}
    IN /\ client_resources' =
            [c \in DOMAIN client_resources |->
                IF c \in cids
                THEN [client_resources[c] EXCEPT
                        !.scheduling_strategy = LastProbeOf(probes, c).key[1]]
                ELSE client_resources[c]]
       /\ client_configs_map' =
            [c \in (DOMAIN client_configs_map) \cup cids |->
                IF c \in cids
                THEN <<LastProbeOf(probes, c).key[1], LastProbeOf(probes, c).key[2],
                       LastProbeOf(probes, c).local_steps>>
                ELSE client_configs_map[c]]
       /\ client_fit_list' =
            [k \in DOMAIN probes |->
                [cid |-> probes[k].cid, gpu_id |-> probes[k].gpu_id,
                 local_steps |-> probes[k].local_steps]]

\* server_round == 1 (lines 254-290)
ConfigureDiscover ==
    \E fail_at \in 0..Len(monitors) :
        LET st == request_available_resources(
                      [gpu_resources |-> gpu_resources,
                       cpu_resources |-> cpu_resources,
                       resources_model |-> resources_model,
                       err |-> "none"], monitors, fail_at)
        IN /\ gpu_resources' = st.gpu_resources
           /\ cpu_resources' = st.cpu_resources
           /\ resources_model' = st.resources_model
           /\ branch' = "discover"
           /\ IF st.err # "none"
              THEN /\ err' = st.err
                   /\ pc' = "crashed"
                   /\ UNCHANGED <<client_resources, client_configs_map,
                                  client_fit_list, collecting>>
              ELSE /\ \E clients \in Sample(Len(st.resources_model)) :
                        DispatchProbes(Probes(st.resources_model, st.gpu_resources,
                                              clients, <<num_local_steps>>))
                   /\ collecting' = TRUE
                   /\ err' = "none"
                   /\ pc' = "aggregate"
           /\ UNCHANGED expected_time

\* server_round == 2 (lines 292-325)
ConfigureCalibrate ==
    /\ \E clients \in Sample((resource_poly_degree + 1) * Len(resources_model)) :
          DispatchProbes(Probes(resources_model, gpu_resources, clients, warm_up_steps))
    /\ branch' = "calibrate"
    /\ collecting' = TRUE
    /\ err' = "none"
    /\ pc' = "aggregate"
    /\ UNCHANGED <<gpu_resources, cpu_resources, resources_model, expected_time>>

\* num_fit_clients(num_available) of FedAvg with the defaults of __init__:
\* max(int(num_available * fraction_fit), min_fit_clients), fraction_fit = 0.1
num_fit_clients(num_available) == Max(num_available \div 10, min_fit_clients)

\* every other round (lines 327-343)
ConfigureSchedule ==
    \E clients \in Sample(num_fit_clients(Cardinality(Clients))) :
    \E r \in {associate_resources(
                [i \in DOMAIN clients |-> <<clients[i], Profile(clients[i])>>],
                resources_model, gpu_resources, client_configs_map,
                client_resources)} :
        /\ client_resources' = r.cres
        /\ client_configs_map' = r.cfg
        /\ branch' = "schedule"
        /\ err' = r.err
        /\ IF r.err # "none"
           THEN /\ pc' = "crashed"
                /\ UNCHANGED <<client_fit_list, expected_time, collecting>>
           ELSE /\ client_fit_list' = r.fit_list
                /\ expected_time' = r.makespan
                /\ collecting' = TRUE
                /\ pc' = "aggregate"
        /\ UNCHANGED <<gpu_resources, cpu_resources, resources_model>>

\* a variant that calibrates in every round after the first
RoundBranchNoSteady(round) == IF round = 1 THEN "discover" ELSE "calibrate"

\* the branch a call with this server_round takes (lines 254, 292, 327 and
\* 363, 409)
RoundBranch(round) ==
    IF round = 1 THEN "discover" ELSE IF round = 2 THEN "calibrate" ELSE "schedule"

ConfigureFit ==
    /\ pc = "configure"
    /\ CASE RoundBranch(server_round) = "discover" -> ConfigureDiscover
         [] RoundBranch(server_round) = "calibrate" -> ConfigureCalibrate
         [] OTHER -> ConfigureSchedule
    /\ metrics' = NoMetrics
    /\ UNCHANGED <<monitors, warm_up_steps, server_round, units, calls>>

(***************************************************************************)
(* aggregate_fit.  A monitor reports the tasks that ran on its node: the   *)
(* peak memory of the task on its GPU, the peak memory of all processes on *)
(* that GPU, and the training time.                                        *)
(***************************************************************************)
\* the tasks of this round's results that ran on node_id, in dispatch order
NodeTasks(fit_list, cfg, results, node_id) ==
    SelectSeq(fit_list, LAMBDA f : f.cid \in results /\ cfg[f.cid][1] = node_id)

\* a variant that leaves the task's own peak out of the free memory
EstimateWithoutOwn(total_mem_this_gpu, max_all_proc_mem, max_mem_used_this_gpu) ==
    TruncDiv(total_mem_this_gpu - max_all_proc_mem, max_mem_used_this_gpu)

\* lines 391-398
EstimateCapacity(total_mem_this_gpu, max_all_proc_mem, max_mem_used_this_gpu) ==
    TruncDiv(total_mem_this_gpu - max_all_proc_mem + max_mem_used_this_gpu,
             max_mem_used_this_gpu)

\* lines 400-404: the model keeps its polynomial and gets the new capacity
StoreCapacity(rm, key, max_num_clients_this_gpu) ==
    SetModel(rm, key, rm[ModelIndex(rm, key)].poly, max_num_clients_this_gpu)

\* lines 384-404 for the tasks of one monitor
RECURSIVE RefineNode(_, _, _, _, _)
RefineNode(r, gres, cfg, mem, tasks) ==
    IF tasks = <<>> THEN r
    ELSE LET cid == Head(tasks).cid
             node_id == cfg[cid][1]
             gpu_uuid == cfg[cid][2]
             total_mem_this_gpu == gres[node_id][gpu_uuid].total_mem_mb
         IN IF mem[cid].this = 0
            THEN [r EXCEPT !.err = "ZeroDivisionError"]
            ELSE RefineNode(
                    [r EXCEPT !.rm = StoreCapacity(@, <<node_id, gpu_uuid>>,
                                        EstimateCapacity(total_mem_this_gpu,
                                                         mem[cid].all,
                                                         mem[cid].this))],
                    gres, cfg, mem, Tail(tasks))

\* lines 366-407
RECURSIVE RefineCapacities(_, _, _, _, _, _, _)
RefineCapacities(r, gres, cfg, fit_list, results, mem, actors) ==
    IF actors = <<>> \/ r.err # "none" THEN r
    ELSE RefineCapacities(
            RefineNode(r, gres, cfg, mem,
                       NodeTasks(fit_list, cfg, results, Head(actors).name)),
            gres, cfg, fit_list, results, mem, Tail(actors))

\* a variant that stores the fitted polynomial with the initial capacity
StoreFitResetCap(rm, i, m) == SetModel(rm, rm[i].key, m, 1)

\* lines 440-444: the model gets the fitted polynomial and keeps its capacity
StoreFit(rm, i, m) == SetModel(rm, rm[i].key, m, rm[i].cap)

\* lines 438-444 for one monitor: every model is refitted from the samples
\* this monitor reported for its key
RECURSIVE FitModels(_, _, _, _, _)
FitModels(r, i, cfg, times, tasks) ==
    IF i > Len(r.rm) THEN r
    ELSE LET mine == SelectSeq(tasks,
                        LAMBDA f : <<cfg[f.cid][1], cfg[f.cid][2]>> = r.rm[i].key)
             x == [k \in DOMAIN mine |-> cfg[mine[k].cid][3]]
             y == [k \in DOMAIN mine |-> times[mine[k].cid]]
             fitted == PolyFit(x, y)
         IN IF ~fitted.ok
            THEN [r EXCEPT !.err = "ValueError"]
            ELSE FitModels([r EXCEPT !.rm = StoreFit(@, i, fitted.poly)],
                           i + 1, cfg, times, tasks)

\* lines 416-444
RECURSIVE FitActors(_, _, _, _, _, _)
FitActors(r, cfg, fit_list, results, times, actors) ==
    IF actors = <<>> \/ r.err # "none" THEN r
    ELSE FitActors(
            FitModels(r, 1, cfg, times,
                      NodeTasks(fit_list, cfg, results, Head(actors).name)),
            cfg, fit_list, results, times, Tail(actors))

\* the results that came back: any of the clients the round was sent to
Dispatched == {client_fit_list[k].cid : k \in DOMAIN client_fit_list}

\* the server's loop: the next round is configured once this one is
\* aggregated; an exception out of the strategy ends the run
ServerAdvance(failed) ==
    IF failed
    THEN /\ pc' = "crashed"
         /\ UNCHANGED server_round
    ELSE IF server_round < MaxRound
    THEN /\ pc' = "configure"
         /\ server_round' = server_round + 1
    ELSE /\ pc' = "done"
         /\ UNCHANGED server_round

AggregateFinish(r) ==
    /\ resources_model' = r.rm
    /\ err' = r.err
    /\ ServerAdvance(r.err # "none")

\* server_round == 1 (lines 363-407), the readings drawn from the given sets
AggregateCapacity(ThisReadings, AllReadings) ==
    \E results \in SUBSET Dispatched :
    \E mem \in [results -> [this : ThisReadings, all : AllReadings]] :
        /\ metrics' = [results |-> results, mem |-> mem, times |-> <<>>]
        /\ AggregateFinish(
              RefineCapacities([rm |-> resources_model, err |-> "none"],
                               gpu_resources, client_configs_map, client_fit_list,
                               results, mem, monitors))

\* server_round == 2 (lines 409-444)
AggregateTimes ==
    \E results \in SUBSET Dispatched :
    \E times \in [results -> 1..MaxDuration] :
        /\ metrics' = [results |-> results, mem |-> <<>>, times |-> times]
        /\ AggregateFinish(
              FitActors([rm |-> resources_model, err |-> "none"],
                        client_configs_map, client_fit_list, results, times,
                        monitors))

\* every other round: nothing of the strategy changes
AggregateOnly ==
    /\ metrics' = NoMetrics
    /\ AggregateFinish([rm |-> resources_model, err |-> "none"])

AggregateFitOver(ThisReadings, AllReadings) ==
    /\ pc = "aggregate"
    /\ collecting' = FALSE
    /\ branch' = RoundBranch(server_round)
    /\ CASE RoundBranch(server_round) = "discover" ->
                AggregateCapacity(ThisReadings, AllReadings)
         [] RoundBranch(server_round) = "calibrate" -> AggregateTimes
         [] OTHER -> AggregateOnly
    /\ UNCHANGED <<monitors, warm_up_steps, gpu_resources, cpu_resources,
                   client_configs_map, client_resources, client_fit_list,
                   expected_time, units, calls>>

AggregateFit == AggregateFitOver(0..MaxMem, 0..(2 * MaxMem))

(***************************************************************************)
(* The server runs the rounds in order, configure_fit then aggregate_fit.  *)
(***************************************************************************)
Init ==
    /\ monitors \in Topologies
    /\ warm_up_steps \in WarmUpDraws
    /\ gpu_resources = <<>>
    /\ cpu_resources = {}
    /\ resources_model = <<>>
    /\ client_configs_map = <<>>
    /\ client_resources = [c \in Clients |-> NoResources]
    /\ collecting = FALSE
    /\ server_round = 1
    /\ pc = "configure"
    /\ err = "none"
    /\ branch = "init"
    /\ client_fit_list = <<>>
    /\ expected_time = RatZero
    /\ metrics = NoMetrics
    /\ units = <<>>
    /\ calls = <<>>

Next == ConfigureFit \/ AggregateFit

Spec == Init /\ [][Next]_vars

(***************************************************************************)
(* associate_resources on its own: a caller holding a unit list calls it,  *)
(* up to twice, on the models a bootstrap can leave.                       *)
(***************************************************************************)
Weights == {10, 20, 30}

UnitLists ==
    UNION {{[i \in 1..n |-> <<i, w[i]>>] : w \in [1..n -> Weights]} :
              n \in 0..Min(MaxUnits, Cardinality(Clients))}

\* the capacities round 1 can store
CapValues ==
    {1} \cup {EstimateCapacity(MaxMem, a, t) : a \in 0..(2 * MaxMem), t \in 1..MaxMem}

\* the initial model and two fitted ones
AssignPolys ==
    {InitialPoly, PolyFit(<<5, 10>>, <<1, 2>>).poly, PolyFit(<<5, 10>>, <<2, 1>>).poly}

AssignTopologies ==
    {<<>>, <<Node(1, 1)>>, <<Node(1, 2)>>, <<Node(2, 1), Node(1, 1)>>}

NothingDiscovered ==
    [gpu_resources |-> <<>>, cpu_resources |-> {}, resources_model |-> <<>>,
     err |-> "none"]

InitAssign ==
    /\ monitors \in AssignTopologies
    /\ warm_up_steps = <<5, 10>>
    /\ LET st == request_available_resources(NothingDiscovered, monitors, 0)
       IN /\ gpu_resources = st.gpu_resources
          /\ cpu_resources = st.cpu_resources
          /\ \E ch \in [DOMAIN st.resources_model -> AssignPolys \X CapValues] :
                resources_model =
                    [i \in DOMAIN st.resources_model |->
                        [key |-> st.resources_model[i].key,
                         poly |-> ch[i][1], cap |-> ch[i][2]]]
    /\ client_configs_map = <<>>
    /\ client_resources = [c \in Clients |-> NoResources]
    /\ collecting = FALSE
    /\ server_round = 3
    /\ pc = "assign"
    /\ err = "none"
    /\ branch = "schedule"
    /\ client_fit_list = <<>>
    /\ expected_time = RatZero
    /\ metrics = NoMetrics
    /\ units \in UnitLists
    /\ calls = <<>>

\* the caller passes its list; the call sorts it in place and deletes what
\* it assigns (lines 190, 233)
CallAssign ==
    /\ pc = "assign"
    /\ Len(calls) < 2
    /\ \E r \in {associate_resources(units, resources_model, gpu_resources,
                                     client_configs_map, client_resources)} :
          /\ units' = r.cww
          /\ calls' = Append(calls,
                [units |-> units, err |-> r.err, fit_list |-> r.fit_list,
                 batches |-> r.batches, times |-> r.times, makespan |-> r.makespan,
                 cres |-> r.cres, cfg |-> r.cfg,
                 cres_before |-> client_resources,
                 cfg_before |-> client_configs_map])
          /\ client_resources' = r.cres
          /\ client_configs_map' = r.cfg
          /\ err' = r.err
          /\ IF r.err # "none"
             THEN UNCHANGED <<client_fit_list, expected_time>>
             ELSE /\ client_fit_list' = r.fit_list
                  /\ expected_time' = r.makespan
    /\ UNCHANGED <<monitors, warm_up_steps, gpu_resources, cpu_resources,
                   resources_model, collecting, server_round, pc, branch, metrics>>

NextAssign == CallAssign

SpecAssign == InitAssign /\ [][NextAssign]_vars

(***************************************************************************)
(* The capacity estimate on its own: round 1 was sent to the one GPU of a  *)
(* one-node cluster and is aggregated, over a wider range of readings.     *)
(***************************************************************************)
MemReadings == (0..MaxReading) \cup {200, 400, 1000}

InitCapacity ==
    /\ monitors = <<Node(1, 1)>>
    /\ warm_up_steps = <<5, 10>>
    /\ LET st == request_available_resources(NothingDiscovered, monitors, 0)
           key == st.resources_model[1].key
           probes == Probes(st.resources_model, st.gpu_resources, <<1>>,
                            <<num_local_steps>>)
       IN /\ \E total \in MemReadings \ {0} :
                gpu_resources =
                    [st.gpu_resources EXCEPT ![key[1]][key[2]].total_mem_mb = total]
          /\ cpu_resources = st.cpu_resources
          /\ resources_model = st.resources_model
          /\ client_configs_map =
                [c \in {1} |-> <<key[1], key[2], num_local_steps>>]
          /\ client_resources =
                [c \in Clients |->
                    IF c = 1 THEN [NoResources EXCEPT !.scheduling_strategy = key[1]]
                    ELSE NoResources]
          /\ client_fit_list =
                [k \in DOMAIN probes |->
                    [cid |-> probes[k].cid, gpu_id |-> probes[k].gpu_id,
                     local_steps |-> probes[k].local_steps]]
    /\ collecting = TRUE
    /\ server_round = 1
    /\ pc = "aggregate"
    /\ err = "none"
    /\ branch = "discover"
    /\ expected_time = RatZero
    /\ metrics = NoMetrics
    /\ units = <<>>
    /\ calls = <<>>

AggregateReadings ==
    /\ server_round = 1
    /\ AggregateFitOver(MemReadings, MemReadings)

NextCapacity == AggregateReadings

SpecCapacity == InitCapacity /\ [][NextCapacity]_vars

(***************************************************************************)
(* request_available_resources on its own: it is called again and again    *)
(* while the actors list_actors reports come and go.                       *)
(***************************************************************************)
InitDiscover ==
    /\ monitors \in Topologies
    /\ warm_up_steps = <<5, 10>>
    /\ gpu_resources = <<>>
    /\ cpu_resources = {}
    /\ resources_model = <<>>
    /\ client_configs_map = <<>>
    /\ client_resources = [c \in Clients |-> NoResources]
    /\ collecting = FALSE
    /\ server_round = 1
    /\ pc = "discover"
    /\ err = "none"
    /\ branch = "discover"
    /\ client_fit_list = <<>>
    /\ expected_time = RatZero
    /\ metrics = NoMetrics
    /\ units = <<>>
    /\ calls = <<>>

\* one call, on what list_actors reports now
Discover ==
    /\ pc = "discover"
    /\ Len(calls) < MaxDiscover
    /\ LET before == [gpu_resources |-> gpu_resources,
                      cpu_resources |-> cpu_resources,
                      resources_model |-> resources_model,
                      err |-> "none"]
           st == request_available_resources(before, monitors, 0)
       IN /\ gpu_resources' = st.gpu_resources
          /\ cpu_resources' = st.cpu_resources
          /\ resources_model' = st.resources_model
          /\ calls' = Append(calls, [snapshot |-> monitors, before |-> before])
    /\ UNCHANGED <<monitors, warm_up_steps, client_configs_map, client_resources,
                   collecting, server_round, pc, err, branch, client_fit_list,
                   expected_time, metrics, units>>

\* an actor dies, starts or changes place in the list
SnapshotChanges ==
    /\ pc = "discover"
    /\ monitors' \in Topologies \ {monitors}
    /\ UNCHANGED <<warm_up_steps, gpu_resources, cpu_resources, resources_model,
                   client_configs_map, client_resources, collecting, server_round,
                   pc, err, branch, client_fit_list, expected_time, metrics, units,
                   calls>>

NextDiscover == Discover \/ SnapshotChanges

SpecDiscover == InitDiscover /\ [][NextDiscover]_vars

(***************************************************************************)
(* Properties.                                                             *)
(***************************************************************************)

\* C1: every model of resources_model has a capacity of at least 1 and
\* resource_poly_degree + 1 coefficients, in every reachable state; a
\* memory-based estimate of 0 or less is stored as 1.
C1_CapacityAndDegree ==
    \A i \in DOMAIN resources_model :
        /\ resources_model[i].cap >= 1
        /\ Len(resources_model[i].poly.coef) = resource_poly_degree + 1

\* the case of C2: one device of capacity 2 and three units of weights 30, 20
\* and 10, in any order
C2Case(c) ==
    /\ Len(resources_model) = 1
    /\ resources_model[1].cap = 2
    /\ Len(c.units) = 3
    /\ {c.units[i][2] : i \in DOMAIN c.units} = {10, 20, 30}

C2UnitOfWeight(c, w) == c.units[CHOOSE i \in DOMAIN c.units : c.units[i][2] = w][1]

\* the units of weight 30 and 20 share the first batch, of duration
\* predict(30), the unit of weight 10 is alone in the second
C2Placement(c) ==
    /\ c.err = "none"
    /\ Len(c.batches) = 2
    /\ [i \in DOMAIN c.batches[1].clients |-> c.batches[1].clients[i][2]] = <<30, 20>>
    /\ [i \in DOMAIN c.batches[2].clients |-> c.batches[2].clients[i][2]] = <<10>>
    /\ c.batches[1].time = PolyCall(resources_model[1].poly, 30)
    /\ c.cres[C2UnitOfWeight(c, 30)].num_gpu = Rat(1, 2)
    /\ c.cres[C2UnitOfWeight(c, 20)].num_gpu = Rat(1, 2)
    /\ c.cres[C2UnitOfWeight(c, 10)].num_gpu = Rat(1, 1)

\* C2 as stated: with one device of capacity 2 and units of weights 30, 20,
\* 10, the units 30 and 20 are placed together (share 1/2 each, duration
\* predict(30)), the unit 10 alone (share 1), and the makespan reported is
\* max(predict(30), predict(10)).
C2_MakespanIsMax ==
    \A k \in DOMAIN calls :
        C2Case(calls[k]) =>
            /\ C2Placement(calls[k])
            /\ calls[k].makespan =
                  MaxRat(<<PolyCall(resources_model[1].poly, 30),
                           PolyCall(resources_model[1].poly, 10)>>)

\* C2 amended: the same placement, and the makespan reported is the load of
\* the one device, predict(30) + predict(10): its two batches run one after
\* the other.
C2_MakespanIsSum ==
    \A k \in DOMAIN calls :
        C2Case(calls[k]) =>
            /\ C2Placement(calls[k])
            /\ calls[k].makespan =
                  RatAdd(PolyCall(resources_model[1].poly, 30),
                         PolyCall(resources_model[1].poly, 10))

C2_Witness ==
    \E k \in DOMAIN calls :
        /\ C2Case(calls[k])
        /\ calls[k].units = <<<<1, 10>>, <<2, 30>>, <<3, 20>>>>
        /\ calls[k].err = "none"
        /\ expected_time = calls[k].makespan

\* C3: two calls in a row on the same unit list and the same models return
\* the same assignment (devices, shares, makespan), and a call leaves the
\* caller's unit list as it was.
C3_Idempotent ==
    /\ Len(calls) >= 1 => units = calls[1].units
    /\ Len(calls) = 2 =>
          /\ calls[2].units = calls[1].units
          /\ calls[2].err = calls[1].err
          /\ calls[2].fit_list = calls[1].fit_list
          /\ calls[2].batches = calls[1].batches
          /\ calls[2].makespan = calls[1].makespan
          /\ calls[2].cres = calls[1].cres

\* the memory samples of the last round-1 aggregation, by client
MemSamples == DOMAIN metrics.mem

\* the device a client's task ran on, and its capacity now
DeviceOf(cid) == <<client_configs_map[cid][1], client_configs_map[cid][2]>>

CapacityOf(cid) == resources_model[ModelIndex(resources_model, DeviceOf(cid))].cap

TotalMemOf(cid) ==
    gpu_resources[client_configs_map[cid][1]][client_configs_map[cid][2]].total_mem_mb

\* total - all + this of a client's sample
FreeFor(cid) == TotalMemOf(cid) - metrics.mem[cid].all + metrics.mem[cid].this

\* C4 as stated: for every sample with a positive peak of the task, the
\* capacity computed after round 1 is
\* floor((total - all + this) / this), the numerator of either sign.
C4_EstimateIsFloor ==
    \A c \in MemSamples :
        metrics.mem[c].this > 0 =>
            /\ err = "none"
            /\ CapacityOf(c) = FreeFor(c) \div metrics.mem[c].this

\* C4 amended: the capacity is the quotient (total - all + this) / this
\* truncated toward zero: its floor when the numerator is not negative, its
\* ceiling when it is; total 1000, all 400, this 200 give 4.
C4_EstimateTruncates ==
    \A c \in MemSamples :
        metrics.mem[c].this > 0 =>
            /\ err = "none"
            /\ FreeFor(c) >= 0 =>
                  CapacityOf(c) = FreeFor(c) \div metrics.mem[c].this
            /\ FreeFor(c) < 0 =>
                  CapacityOf(c) = -((-FreeFor(c)) \div metrics.mem[c].this)
            /\ (/\ TotalMemOf(c) = 1000
                /\ metrics.mem[c].all = 400
                /\ metrics.mem[c].this = 200) => CapacityOf(c) = 4

C4_Witness ==
    \E c \in MemSamples :
        /\ metrics.mem[c].this > 0
        /\ FreeFor(c) < 0
        /\ FreeFor(c) % metrics.mem[c].this # 0
        /\ CapacityOf(c) = 0
        /\ pc = "configure"

\* C5: when a round-1 sample has a peak of 0 for the task, the aggregation of
\* round 1 still completes, that device's capacity is 1, and every other
\* device is refined from its own sample.
C5_ZeroSampleFallsBack ==
    (\E c \in MemSamples : metrics.mem[c].this = 0) =>
        /\ err = "none"
        /\ pc # "crashed"
        /\ \A c \in MemSamples :
              IF metrics.mem[c].this = 0
              THEN CapacityOf(c) = 1
              ELSE CapacityOf(c) \in
                      {EstimateCapacity(TotalMemOf(c), metrics.mem[c].all,
                                        metrics.mem[c].this), 1}

\* C6: a call with units whose models hold a capacity below 1 fails, whether
\* or not the greedy pass would pick that device, and returns no assignment.
\* The code names no InvalidModel: any exception out of the call is taken
\* for it.
C6_InvalidModel ==
    \A k \in DOMAIN calls :
        (/\ calls[k].units # <<>>
         /\ \E i \in DOMAIN resources_model : resources_model[i].cap < 1) =>
            calls[k].err # "none"

\* C7: a call with units and no model fails, for want of a device (the
\* ValueError of min() over no device), and writes no unit's resources and
\* no entry of client_configs_map.
C7_NoCapacity ==
    \A k \in DOMAIN calls :
        (resources_model = <<>> /\ calls[k].units # <<>>) =>
            /\ calls[k].err = "ValueError"
            /\ calls[k].fit_list = <<>>
            /\ calls[k].cres = calls[k].cres_before
            /\ calls[k].cfg = calls[k].cfg_before

C7_Witness ==
    \E k \in DOMAIN calls :
        /\ resources_model = <<>>
        /\ Len(calls[k].units) = 2
        /\ calls[k].err # "none"
        /\ client_configs_map = <<>>

\* C8: a call with no unit returns an empty assignment and a makespan of 0,
\* whatever the models, none included, and raises nothing.
C8_EmptyUnits ==
    \A k \in DOMAIN calls :
        calls[k].units = <<>> =>
            /\ calls[k].err = "none"
            /\ calls[k].fit_list = <<>>
            /\ calls[k].makespan = RatZero

\* Discovering, Calibrating, SteadyState, by the branch last taken
PhaseOf(b) ==
    CASE b = "init" -> 0
      [] b = "discover" -> 1
      [] b = "calibrate" -> 2
      [] OTHER -> 3

\* C9: the phase only moves forward: devices are discovered and models
\* initialized in round 1 only, calibration probes go out in round 2 only,
\* and once in the steady state no call discovers, calibrates or resets a
\* model.
C9_PhasesForward ==
    [][/\ PhaseOf(branch') >= PhaseOf(branch)
       /\ branch' = "discover" => server_round = 1
       /\ branch' = "calibrate" => server_round = 2
       /\ (\/ gpu_resources' # gpu_resources
           \/ cpu_resources' # cpu_resources
           \/ ModelKeys(resources_model') # ModelKeys(resources_model))
             => (server_round = 1 /\ pc = "configure")
       /\ PhaseOf(branch) = 3 =>
             /\ branch' = "schedule"
             /\ resources_model' = resources_model
             /\ gpu_resources' = gpu_resources]_vars

C9_Witness ==
    /\ pc = "done"
    /\ server_round >= 3
    /\ branch = "schedule"
    /\ resources_model # <<>>
    /\ \E c \in DOMAIN client_configs_map : client_configs_map[c][3] = Profile(c)

\* C10: completing round 1 changes the capacity of a model and nothing else
\* of it, completing round 2 its coefficients and nothing else, and no call
\* of a later round (nor the configure_fit of round 2) changes a model.
C10_MutatedTwice ==
    [][/\ (pc = "aggregate" /\ server_round = 1) =>
             /\ ModelKeys(resources_model') = ModelKeys(resources_model)
             /\ \A i \in DOMAIN resources_model :
                   resources_model'[i].poly = resources_model[i].poly
       /\ (pc = "aggregate" /\ server_round = 2) =>
             /\ ModelKeys(resources_model') = ModelKeys(resources_model)
             /\ \A i \in DOMAIN resources_model :
                   resources_model'[i].cap = resources_model[i].cap
       /\ (pc = "configure" /\ server_round = 2) =>
             resources_model' = resources_model
       /\ server_round >= 3 => resources_model' = resources_model]_vars

C10_Witness ==
    /\ pc = "done"
    /\ server_round >= 3
    /\ \E i \in DOMAIN resources_model :
          /\ resources_model[i].cap = 2
          /\ resources_model[i].poly # InitialPoly

\* C11: when the result of some probe is missing at the aggregation of round 1
\* or round 2, the aggregation completes without error on the samples that
\* did arrive and every device keeps its model.  Stated for one node and
\* for memory readings above 0, so that nothing but the missing result is at
\* play.
C11_MissingProbe ==
    [][(/\ pc = "aggregate"
        /\ server_round \in {1, 2}
        /\ Len(monitors) = 1
        /\ metrics'.results # Dispatched
        /\ \A c \in DOMAIN metrics'.mem : metrics'.mem[c].this > 0)
          => /\ err' = "none"
             /\ pc' # "crashed"
             /\ ModelKeys(resources_model') = ModelKeys(resources_model)]_vars

\* the GPUs of a snapshot and the devices the inventory holds
GpusOf(snapshot) ==
    UNION {{<<snapshot[i].name, NodeResources(snapshot[i].name, snapshot[i].gpus)[k].uuid>> :
               k \in 2..(snapshot[i].gpus + 1)} : i \in DOMAIN snapshot}

KnownDevices ==
    UNION {{<<n, u>> : u \in DOMAIN gpu_resources[n]} : n \in DOMAIN gpu_resources}

Discovered ==
    [gpu_resources |-> gpu_resources, cpu_resources |-> cpu_resources,
     resources_model |-> resources_model, err |-> "none"]

\* C12: after a call of request_available_resources the devices known and
\* the devices that hold a model are exactly the GPUs of the snapshot the
\* call read: a second call on the same snapshot changes nothing, and a
\* device of an earlier snapshot that is gone keeps no entry and no model.
C12_SnapshotExact ==
    calls # <<>> =>
        LET last == calls[Len(calls)]
        IN /\ KnownDevices = GpusOf(last.snapshot)
           /\ Range(ModelKeys(resources_model)) = GpusOf(last.snapshot)
           /\ (Len(calls) >= 2 /\ calls[Len(calls) - 1].snapshot = last.snapshot)
                 => Discovered = last.before

\* C13: when the query of some node fails during the discovery of round 1,
\* the failure ends the round, nothing read from the nodes before it is
\* left in the inventory or the model map, and no probe is dispatched.
C13_NoPartialDiscovery ==
    err = "RayError" =>
        /\ pc = "crashed"
        /\ server_round = 1
        /\ client_fit_list = <<>>
        /\ client_configs_map = <<>>
        /\ ~collecting
        /\ resources_model = <<>>
        /\ KnownDevices = {}
        /\ cpu_resources = {}

\* the calls C14..C17 are about: units, at least one model, capacities >= 1
WellFormedCall(c) ==
    /\ c.units # <<>>
    /\ resources_model # <<>>
    /\ \A i \in DOMAIN resources_model : resources_model[i].cap >= 1

\* the units of the batches of a call, in the order they were placed
RECURSIVE BatchUnits(_)
BatchUnits(batches) ==
    IF batches = <<>> THEN <<>>
    ELSE Head(batches).clients \o BatchUnits(Tail(batches))

\* C14: a call with units and models of capacity >= 1 places every unit
\* exactly once; the batches taken in order run through the units by
\* descending weight, each of size min(capacity of its device, units left);
\* every unit of a batch gets the share 1 / len(batch), the node of the
\* device and the entry (node, gpu, its own weight) in client_configs_map.
C14_EveryUnitOnce ==
    \A k \in DOMAIN calls :
        LET c == calls[k]
            placed == BatchUnits(c.batches)
        IN WellFormedCall(c) =>
            /\ c.err = "none"
            /\ Len(placed) = Len(c.units)
            /\ Range(placed) = Range(c.units)
            /\ \A i \in 1..(Len(placed) - 1) : placed[i][2] >= placed[i + 1][2]
            /\ [i \in DOMAIN c.fit_list |-> c.fit_list[i].cid] =
                  [i \in DOMAIN placed |-> placed[i][1]]
            /\ \A b \in DOMAIN c.batches :
                  LET batch == c.batches[b]
                      before == Len(BatchUnits(SubSeq(c.batches, 1, b - 1)))
                      dev == resources_model[batch.idx]
                  IN /\ Len(batch.clients) = Min(dev.cap, Len(c.units) - before)
                     /\ Len(batch.clients) <= dev.cap
                     /\ \A i \in DOMAIN batch.clients :
                           LET cid == batch.clients[i][1]
                           IN /\ c.cres[cid].num_gpu = Rat(1, Len(batch.clients))
                              /\ c.cres[cid].scheduling_strategy = dev.key[1]
                              /\ c.cfg[cid] = <<dev.key[1], dev.key[2],
                                                batch.clients[i][2]>>

C14_Witness ==
    \E k \in DOMAIN calls :
        /\ WellFormedCall(calls[k])
        /\ Len(calls[k].units) = 3
        /\ Len(resources_model) = 2
        /\ Len(calls[k].batches) = 2
        /\ \E b \in DOMAIN calls[k].batches : Len(calls[k].batches[b].clients) = 2
        /\ calls[k].units[1][2] < calls[k].units[3][2]

\* device identities in their order: node id, then gpu uuid
KeyBefore(a, b) == a[1] < b[1] \/ (a[1] = b[1] /\ a[2] < b[2])

\* C15: every pass picks a device of least expected load, and among the
\* devices of least load the one of lowest identity (node id, then device
\* id), whatever the order in which the devices entered resources_model.
C15_LeastLoadLowestId ==
    \A k \in DOMAIN calls :
        WellFormedCall(calls[k]) =>
            \A b \in DOMAIN calls[k].batches :
                LET batch == calls[k].batches[b]
                IN \A j \in DOMAIN resources_model :
                      /\ ~RatLess(batch.load[j], batch.load[batch.idx])
                      /\ (batch.load[j] = batch.load[batch.idx] /\ j # batch.idx)
                            => KeyBefore(batch.key, resources_model[j].key)

\* the largest weight of a batch
LargestWeight(clients) ==
    CHOOSE w \in {clients[i][2] : i \in DOMAIN clients} :
        \A i \in DOMAIN clients : clients[i][2] <= w

\* the sum of the durations of the batches placed on device j
RECURSIVE LoadOf(_, _)
LoadOf(batches, j) ==
    IF batches = <<>> THEN RatZero
    ELSE LET rest == LoadOf(Tail(batches), j)
             batch == Head(batches)
         IN IF batch.idx = j
            THEN RatAdd(PolyCall(resources_model[j].poly,
                                 LargestWeight(batch.clients)), rest)
            ELSE rest

\* C16: when a call returns, the expected load of every device is the sum,
\* over the batches placed on it, of its model evaluated at the largest
\* weight of the batch (0 without a batch), and the makespan reported is the
\* greatest of these loads.
C16_LoadsAndMakespan ==
    \A k \in DOMAIN calls :
        LET c == calls[k]
        IN c.err = "none" =>
            /\ Len(c.times) = Len(resources_model)
            /\ \A j \in DOMAIN resources_model : c.times[j] = LoadOf(c.batches, j)
            /\ \A j \in DOMAIN c.times : ~RatLess(c.makespan, c.times[j])
            /\ \E j \in DOMAIN c.times : c.makespan = c.times[j]

C16_Witness ==
    \E k \in DOMAIN calls :
        LET c == calls[k]
        IN /\ c.err = "none"
           /\ Len(resources_model) = 2
           /\ Len(c.batches) = 3
           /\ c.batches[1].idx = c.batches[3].idx
           /\ resources_model[c.batches[1].idx].poly # InitialPoly
           /\ RatLess(c.times[1], c.times[2])
           /\ c.makespan = c.times[2]

\* the caller's list as call k left it
LeftBy(k) == IF k < Len(calls) THEN calls[k + 1].units ELSE units

\* C17: on units and models of capacity >= 1 the loop ends: every pass
\* leaves fewer units than it found, so there are at most as many passes as
\* units, and the loop stops exactly when the list is empty, without error.
C17_LoopEnds ==
    \A k \in DOMAIN calls :
        LET c == calls[k]
        IN WellFormedCall(c) =>
            /\ c.err = "none"
            /\ Len(c.batches) >= 1
            /\ Len(c.batches) <= Len(c.units)
            /\ \A b \in DOMAIN c.batches :
                  /\ c.batches[b].left <
                        (IF b = 1 THEN Len(c.units) ELSE c.batches[b - 1].left)
                  /\ (c.batches[b].left = 0) = (b = Len(c.batches))
            /\ LeftBy(k) = <<>>

C17_Witness ==
    \E k \in DOMAIN calls :
        /\ WellFormedCall(calls[k])
        /\ Len(calls[k].units) = 3
        /\ Len(calls[k].batches) = 2
        /\ calls[k].batches[1].left = 2
        /\ resources_model[calls[k].batches[2].idx].cap = 2
        /\ LeftBy(k) = <<>>

\* the device a probe of the round was dispatched to: the node the client
\* was pinned to and the GPU of that node with the gpu_id of its FitIns
ProbeDevice(f) ==
    LET node == client_resources[f.cid].scheduling_strategy
    IN <<node, CHOOSE u \in DOMAIN gpu_resources[node] :
                  gpu_resources[node][u].gpu_id = f.gpu_id>>

\* the probes dispatched to a device whose results are in
ProbesOf(key, results) ==
    SelectSeq(client_fit_list, LAMBDA f : f.cid \in results /\ ProbeDevice(f) = key)

\* C18: when all results of round 2 are in, on one node or several, the
\* aggregation fits every model from exactly the (size, duration) samples of
\* the probes that were dispatched to its device, and no later fit over
\* fewer samples replaces it.
C18_FitFromOwnSamples ==
    [][(/\ pc = "aggregate"
        /\ server_round = 2
        /\ metrics'.results = Dispatched)
          => /\ err' = "none"
             /\ ModelKeys(resources_model') = ModelKeys(resources_model)
             /\ \A i \in DOMAIN resources_model :
                   LET own == ProbesOf(resources_model[i].key, metrics'.results)
                       x == [k \in DOMAIN own |-> own[k].local_steps]
                       y == [k \in DOMAIN own |-> metrics'.times[own[k].cid]]
                   IN /\ Len(own) = resource_poly_degree + 1
                      /\ resources_model'[i].poly = PolyFit(x, y).poly]_vars

\* C19: configure_fit of round 2 dispatches to every device with a model
\* exactly resource_poly_degree + 1 probes, each to another participant, of
\* pairwise distinct sizes: the sizes of warm_up_steps, the same for every
\* device, drawn at construction and never drawn again.
C19_CalibrationProbes ==
    [][/\ warm_up_steps' = warm_up_steps
       /\ (pc = "configure" /\ server_round = 2 /\ pc' = "aggregate") =>
             /\ Injective([k \in DOMAIN client_fit_list' |-> client_fit_list'[k].cid])
             /\ Len(client_fit_list') =
                   (resource_poly_degree + 1) * Len(resources_model)
             /\ \A i \in DOMAIN resources_model :
                   LET own == SelectSeq(client_fit_list',
                                  LAMBDA f :
                                     /\ client_resources'[f.cid].scheduling_strategy
                                           = resources_model[i].key[1]
                                     /\ gpu_resources[resources_model[i].key[1]]
                                                     [resources_model[i].key[2]].gpu_id
                                           = f.gpu_id)
                       sizes == [k \in DOMAIN own |-> own[k].local_steps]
                   IN /\ Len(own) = resource_poly_degree + 1
                      /\ Injective(sizes)
                      /\ sizes = warm_up_steps
                      /\ \A k \in DOMAIN own :
                            client_configs_map'[own[k].cid] =
                               <<resources_model[i].key[1], resources_model[i].key[2],
                                 own[k].local_steps>>]_vars

C19_Witness ==
    /\ pc = "aggregate"
    /\ server_round = 2
    /\ branch = "calibrate"
    /\ Len(resources_model) = 2
    /\ Len(client_fit_list) = 4
    /\ client_fit_list[1].local_steps # client_fit_list[2].local_steps

\* C20: configure_fit of round 1 gives every GPU the monitors report, and
\* no CPU, a model with the polynomial 1 and capacity 1, and dispatches to
\* each of these devices exactly one probe of num_local_steps steps, each to
\* another participant, recorded in client_configs_map with device and size.
C20_DiscoveryProbes ==
    [][(pc = "configure" /\ server_round = 1 /\ pc' = "aggregate") =>
          /\ Injective(ModelKeys(resources_model'))
          /\ Range(ModelKeys(resources_model')) = GpusOf(monitors)
          /\ \A i \in DOMAIN resources_model' :
                /\ resources_model'[i].poly = InitialPoly
                /\ PolyCall(resources_model'[i].poly, num_local_steps) = Rat(1, 1)
                /\ resources_model'[i].cap = 1
          /\ Injective([k \in DOMAIN client_fit_list' |-> client_fit_list'[k].cid])
          /\ Len(client_fit_list') = Len(resources_model')
          /\ \A i \in DOMAIN resources_model' :
                LET key == resources_model'[i].key
                    own == SelectSeq(client_fit_list',
                              LAMBDA f :
                                 /\ client_resources'[f.cid].scheduling_strategy = key[1]
                                 /\ gpu_resources'[key[1]][key[2]].gpu_id = f.gpu_id)
                IN /\ Len(own) = 1
                   /\ own[1].local_steps = num_local_steps
                   /\ client_configs_map'[own[1].cid] =
                         <<key[1], key[2], num_local_steps>>]_vars

C20_Witness ==
    /\ pc = "aggregate"
    /\ server_round = 1
    /\ branch = "discover"
    /\ Len(resources_model) = 2
    /\ Len(client_fit_list) = 2
    /\ cpu_resources = {1, 2}
    /\ resources_model[1].key[1] = 2

====
